---- MODULE Spec2Model ----
(***************************************************************************)
(* Model of the batch verification-and-signing service of the DA signer    *)
(* (grpc/src/service.rs): the admission counter around batch_sign, and the *)
(* per-request pipeline of batch_sign_inner (decode_root,                  *)
(* check_blob_status, decode_encoded_slices, verify_encoded_slices, sign,  *)
(* put_slice).                                                             *)
(*                                                                         *)
(* A batch_sign call is a task of the asynchronous runtime; its position   *)
(* is pc[c].  The batch of a call is an immutable input of that call: the  *)
(* model draws each part of it when the code first reads it.  requests[c]  *)
(* is the prefix of the batch that `for req in requests.iter()` has read   *)
(* so far (the whole batch once the iterator is exhausted), and the        *)
(* encoded_slice of a request is the prefix of its slices that             *)
(* decode_encoded_slices has read (all of them unless one failed to        *)
(* deserialize).  verify_encoded_slices is three positions, one for each   *)
(* of its steps: the call is suspended on fetch_quorum_if_missing, then on *)
(* the read of the assigned slices, then runs verify_assigned_slices.      *)
(*                                                                         *)
(* Specifications: Spec (concurrent calls around the admission counter),   *)
(* SpecPipeline (one call, any batch), SpecBatch (one call, batches with   *)
(* different requests that pass), SpecOverload (a maximum of 0, two        *)
(* calls), SpecFlip (two calls beside the owner of the blob status db),    *)
(* SpecRepeat (two calls with repeated requests).                          *)
(***************************************************************************)
EXTENDS Integers, Sequences, FiniteSets, TLC

\* ------------------------------------------------------------------ bounds

NumCalls == 3         \* concurrent batch_sign calls
MaxBatchLen == 2      \* requests in one BatchSignRequest
MaxSlices == 3        \* encoded slices in one SignRequest

\* the values of max_ongoing_sign_request the service is configured with;
\* DEFAULT_MAX_ONGOING_SIGN_REQUEST when the configuration gives none
ConfiguredMax == {1}
DEFAULT_MAX_ONGOING_SIGN_REQUEST == 10

Calls == 1..NumCalls
NoCall == 0

\* ------------------------------------------------------- request contents

Epochs == {1}
QuorumIds == {0, 1, 2}
\* storage_root bytes on the wire: two 32-byte roots and one of 31 bytes
RootWires == {"r1", "r2", "short"}
RootLen(w) == IF w = "short" THEN 31 ELSE 32
\* erasure_commitment bytes on the wire, by what the decoder finds in them
CommitmentWires == {"malformed", "off_curve", "off_subgroup", "P1"}
SliceIndices == {3, 7, 9}

\* One element of req.encoded_slice.  wf: the bytes deserialize to an
\* EncodedSlice; index: the slice's index; valid: the outcome of
\* slice.verify against the request's commitment and root.
WireSlices ==
    {[wf |-> FALSE, index |-> 0, valid |-> FALSE]}
        \cup [wf : {TRUE}, index : SliceIndices, valid : BOOLEAN]

SeqsUpTo(S, n) == UNION {[1..k -> S] : k \in 0..n}

\* the requests, before any of their slices is read
SignRequests ==
    [epoch : Epochs, quorum_id : QuorumIds, storage_root : RootWires,
     erasure_commitment : CommitmentWires, encoded_slice : {<<>>}]

\* what decode_encoded_slices can read of a list of at most MaxSlices
\* slices: it stops at the first slice that does not deserialize
SliceReads ==
    {s \in SeqsUpTo(WireSlices, MaxSlices) :
        \A i \in 1..Len(s) : i < Len(s) => s[i].wf}

\* ------------------------------------------------------ external storage

\* Option<T>: None is the empty sequence, Some(v) the sequence of v alone
None == <<>>
Some(v) == <<v>>
NoStatus == "None"

\* the number of quorums of the epoch on the chain
QuorumNum(epoch) == 2

\* db.get_assgined_slices(epoch, quorum_id): quorum 1 has no record; quorum
\* 2 has a record although it is out of bound.
AssignedSlicesOf(epoch, quorum_id) ==
    IF quorum_id = 1 THEN None ELSE Some(<<3, 7, 9>>)

BlobKeys == Epochs \X QuorumIds \X {"r1", "r2", "r3"}

\* blob status DB at start: every r1 blob is uploaded; in (epoch 1,
\* quorum 0) r2 is verified already and r3 is uploaded, and both are
\* unknown elsewhere.
InitialBlobStatus(key) ==
    IF key[3] = "r1" THEN "UPLOADED"
    ELSE IF key[1] = 1 /\ key[2] = 0
    THEN (IF key[3] = "r2" THEN "VERIFIED" ELSE "UPLOADED")
    ELSE NoStatus

\* the scalars the service is given as signer_private_key
PrivateKeys == {1, 2}

\* ------------------------------------------------------------- the state

VARIABLES
    max_ongoing_sign_request,   \* SignerService.max_ongoing_sign_request
    signer_private_key,         \* SignerService.signer_private_key
    ongoing_sign_request_cnt,   \* SignerService.ongoing_sign_request_cnt
    cnt_lock,                   \* the call holding its write lock, or NoCall
    blob_status_db,             \* BlobStatusDB: key -> UPLOADED | VERIFIED | None
    slice_db,                   \* SliceDB: key -> the slices put, or None
    pc,                         \* position of each batch_sign call
    requests,                   \* the requests the loop of each call has read
    signatures,                 \* reply.signatures of batch_sign_inner
    reply,                      \* `reply` of batch_sign: result of batch_sign_inner
    response,                   \* what the caller of batch_sign received
    incs,                       \* history: increments of the counter by each call
    decs,                       \* history: decrements of the counter by each call
    trace,                      \* history: the steps each call ran, with outcome
    verified                    \* history: the <<request, position>> of the
                                \* slices each call passed to slice.verify

vars == <<max_ongoing_sign_request, signer_private_key,
          ongoing_sign_request_cnt, cnt_lock,
          blob_status_db, slice_db, pc, requests, signatures, reply, response,
          incs, decs, trace, verified>>

\* ------------------------------------------------------- replies, status

NoReply == [kind |-> "None", code |-> "", message |-> "", signatures |-> <<>>]
OkReply(sigs) ==
    [kind |-> "Ok", code |-> "Ok", message |-> "", signatures |-> sigs]
\* Err(Status::new(code, message)): a status carries no signature
ErrReply(code, message) ==
    [kind |-> "Err", code |-> code, message |-> message, signatures |-> <<>>]

\* ------------------------------------------------------ pure functions

Deserializes(w) == w # "malformed"
IsOnCurve(w) == w \in {"off_subgroup", "P1"}
IsInCorrectSubgroup(w) == w = "P1"

\* decode_root without the subgroup check on the commitment
DecodeRootResult_NoSubgroupCheck(req) ==
    IF RootLen(req.storage_root) # 32
    THEN ErrReply("InvalidArgument", "storage root")
    ELSE IF ~Deserializes(req.erasure_commitment)
    THEN ErrReply("InvalidArgument", "failed to deserialize erasure commitment")
    ELSE IF ~IsOnCurve(req.erasure_commitment)
    THEN ErrReply("InvalidArgument",
                  "Incorrect commitment: commitment is not in group")
    ELSE NoReply

\* decode_root: NoReply when root and commitment decode, else the error
DecodeRootResult(req) ==
    IF RootLen(req.storage_root) # 32
    THEN ErrReply("InvalidArgument", "storage root")
    ELSE IF ~Deserializes(req.erasure_commitment)
    THEN ErrReply("InvalidArgument", "failed to deserialize erasure commitment")
    ELSE IF ~IsOnCurve(req.erasure_commitment)
            \/ ~IsInCorrectSubgroup(req.erasure_commitment)
    THEN ErrReply("InvalidArgument",
                  "Incorrect commitment: commitment is not in group")
    ELSE NoReply

\* decode_encoded_slices: the first slice that fails to deserialize aborts
DecodeEncodedSlicesResult(req) ==
    IF \E i \in 1..Len(req.encoded_slice) : ~req.encoded_slice[i].wf
    THEN ErrReply("InvalidArgument", "failed to deserialize slice")
    ELSE NoReply

\* the closure without the call of slice.verify
VerifyPosition_NoVerify(expected_index, slice) ==
    IF expected_index # slice.index THEN "SliceMismatch" ELSE "Ok"

\* the closure of verify_assigned_slices, for one position
VerifyPosition(expected_index, slice) ==
    IF expected_index # slice.index THEN "SliceMismatch"
    ELSE IF slice.valid THEN "Ok" ELSE "IncorrectSlice"

\* one result of verify_assigned_slices: the error ("Ok": none) and the
\* positions of the slices passed to slice.verify
Verification(error, positions) == [error |-> error, verified |-> positions]

\* verify_assigned_slices matching the indices as sets, not by position
VerifyAssignedSlices_AsSets(assigned_slices, encoded_slices) ==
    IF {assigned_slices[i] : i \in 1..Len(assigned_slices)}
           # {encoded_slices[i].index : i \in 1..Len(encoded_slices)}
    THEN {Verification("SliceMismatch", {})}
    ELSE IF \A i \in 1..Len(encoded_slices) : encoded_slices[i].valid
    THEN {Verification("Ok", 1..Len(encoded_slices))}
    ELSE {Verification("IncorrectSlice", 1..Len(encoded_slices))}

\* verify_assigned_slices with slice.verify called before the index of the
\* slice is compared
VerifyAssignedSlices_VerifyFirst(assigned_slices, encoded_slices) ==
    IF Len(assigned_slices) # Len(encoded_slices)
    THEN {Verification("SliceMismatch", {})}
    ELSE LET positions == 1..Len(assigned_slices)
             failing == {i \in positions :
                            VerifyPosition(assigned_slices[i],
                                           encoded_slices[i]) # "Ok"}
         IN  IF failing = {} THEN {Verification("Ok", positions)}
             ELSE {Verification(VerifyPosition(assigned_slices[i],
                                               encoded_slices[i]), positions) :
                       i \in failing}

\* verify_assigned_slices: the results the call can have.  The positions
\* are evaluated by a parallel iterator collected into a Result, which
\* keeps the error of whichever failing position reports first and skips
\* the positions not yet started: slice.verify is called for the slices
\* whose index is the expected one, for all of them when no position
\* fails, and else for any of them, the one reported among them.
VerifyAssignedSlices(assigned_slices, encoded_slices) ==
    IF Len(assigned_slices) # Len(encoded_slices)
    THEN {Verification("SliceMismatch", {})}
    ELSE LET positions == 1..Len(assigned_slices)
             matching == {i \in positions :
                             assigned_slices[i] = encoded_slices[i].index}
             failing == {i \in positions :
                            VerifyPosition(assigned_slices[i],
                                           encoded_slices[i]) # "Ok"}
         IN  IF failing = {} THEN {Verification("Ok", matching)}
             ELSE UNION {
                    {Verification(VerifyPosition(assigned_slices[i],
                                                 encoded_slices[i]), S) :
                         S \in {T \in SUBSET matching :
                                    i \in matching => i \in T}} :
                    i \in failing}

\* verify_encoded_slices with the bound check off by one
\* (quorum_num < quorum_id)
VerifyEncodedSlicesRuns_OffByOne(req, chain_ok, db_ok) ==
    LET quorum_num == QuorumNum(req.epoch)
        assigned == AssignedSlicesOf(req.epoch, req.quorum_id)
        Run(error, detail, steps) ==
            [error |-> error, detail |-> detail, steps |-> steps,
             verified |-> {}]
    IN  IF ~chain_ok
        THEN {Run("Internal", "fetch quorum failed",
                  <<"fetch_quorum_if_missing">>)}
        ELSE IF quorum_num < req.quorum_id
        THEN {Run("Internal", "quorum_id out of bound",
                  <<"fetch_quorum_if_missing">>)}
        ELSE IF ~db_ok
        THEN {Run("Internal", "db error",
                  <<"fetch_quorum_if_missing", "get_assgined_slices">>)}
        ELSE IF assigned = None
        THEN {Run("Internal", "quorum not found",
                  <<"fetch_quorum_if_missing", "get_assgined_slices">>)}
        ELSE {[Run(v.error, "", <<"fetch_quorum_if_missing",
                                  "get_assgined_slices",
                                  "verify_assigned_slices">>)
                   EXCEPT !.verified = v.verified] :
                  v \in VerifyAssignedSlices(assigned[1], req.encoded_slice)}

\* verify_encoded_slices: the runs the call can have, each the
\* VerificationError it ends with ("Ok": none), the steps it took and
\* the positions of the slices it passed to slice.verify.
\* chain_ok: fetch_quorum_if_missing succeeds; db_ok: the read of the
\* quorum db succeeds.
VerifyEncodedSlicesRuns(req, chain_ok, db_ok) ==
    LET quorum_num == QuorumNum(req.epoch)
        assigned == AssignedSlicesOf(req.epoch, req.quorum_id)
        Run(error, detail, steps) ==
            [error |-> error, detail |-> detail, steps |-> steps,
             verified |-> {}]
    IN  IF ~chain_ok
        THEN {Run("Internal", "fetch quorum failed",
                  <<"fetch_quorum_if_missing">>)}
        ELSE IF quorum_num <= req.quorum_id
        THEN {Run("Internal", "quorum_id out of bound",
                  <<"fetch_quorum_if_missing">>)}
        ELSE IF ~db_ok
        THEN {Run("Internal", "db error",
                  <<"fetch_quorum_if_missing", "get_assgined_slices">>)}
        ELSE IF assigned = None
        THEN {Run("Internal", "quorum not found",
                  <<"fetch_quorum_if_missing", "get_assgined_slices">>)}
        ELSE {[Run(v.error, "", <<"fetch_quorum_if_missing",
                                  "get_assgined_slices",
                                  "verify_assigned_slices">>)
                   EXCEPT !.verified = v.verified] :
                  v \in VerifyAssignedSlices(assigned[1], req.encoded_slice)}

\* the match with IncorrectSlice mapped like Internal
StatusOfVerificationError_IncorrectInternal(run) ==
    IF run.error = "SliceMismatch"
    THEN ErrReply("InvalidArgument",
                  "received slices and assigned slices are mismatch")
    ELSE ErrReply("Internal", run.detail)

\* the match on VerificationError in batch_sign_inner
StatusOfVerificationError(run) ==
    IF run.error = "Internal"
    THEN ErrReply("Internal", run.detail)
    ELSE IF run.error = "SliceMismatch"
    THEN ErrReply("InvalidArgument",
                  "received slices and assigned slices are mismatch")
    ELSE ErrReply("InvalidArgument", "verification failed")

\* A point of G1 is written as a multiple of a point that bytes hash to:
\* [msg |-> bytes, k |-> n] is n times map_to_g1(keccak256(bytes)); the
\* hash and the map to the curve are kept symbolic.
G1Point(bytes, n) == [msg |-> bytes, k |-> n]

\* point * scalar
ScalarMul(point, scalar) == G1Point(point.msg, point.k * scalar)

\* blob_verified_hash: the point the packed bytes root || epoch ||
\* quorum_id || x || y hash to
BlobVerifiedHash(data_root, epoch, quorum_id, erasure_commitment) ==
    G1Point(<<data_root, epoch, quorum_id,
              <<erasure_commitment, "x">>, <<erasure_commitment, "y">>>>, 1)

\* the signature without the multiplication by the key
SignatureOf_HashOnly(req) ==
    BlobVerifiedHash(req.storage_root, req.epoch, req.quorum_id,
                     req.erasure_commitment)

\* (hash * signer_private_key).into_affine(), serialized
SignatureOf(req) ==
    ScalarMul(BlobVerifiedHash(req.storage_root, req.epoch, req.quorum_id,
                               req.erasure_commitment),
              signer_private_key)

KeyOf(req) == <<req.epoch, req.quorum_id, req.storage_root>>

\* the slice db after put_slice(epoch, quorum_id, storage_root, slices)
\* of the storage: the slices are stored under the key
PutSlices(db, key, slices) == [db EXCEPT ![key] = Some(slices)]

\* --------------------------------------------------------------- actions

\* the request the loop of call c is at
Req(c) == requests[c][Len(requests[c])]

Event(c, op, out) == [req |-> Len(requests[c]), op |-> op, out |-> out]
Log(c, op, out) == trace' = [trace EXCEPT ![c] = Append(@, Event(c, op, out))]

\* `?` on an error inside batch_sign_inner: the function returns Err(status)
\* to batch_sign, which goes on to on_complete_batch_sign
ReturnErr(c, status) ==
    /\ reply' = [reply EXCEPT ![c] = status]
    /\ pc' = [pc EXCEPT ![c] = "on_complete_batch_sign"]

\* SignerService::new with max_ongoing_sign_request among configured_max
\* and signer_private_key among private_keys
New(configured_max, private_keys) ==
    /\ max_ongoing_sign_request \in configured_max
    /\ signer_private_key \in private_keys
    /\ ongoing_sign_request_cnt = 0
    /\ cnt_lock = NoCall
    /\ blob_status_db = [k \in BlobKeys |-> InitialBlobStatus(k)]
    /\ slice_db = [k \in BlobKeys |-> None]
    /\ pc = [c \in Calls |-> "idle"]
    /\ requests = [c \in Calls |-> <<>>]
    /\ signatures = [c \in Calls |-> <<>>]
    /\ reply = [c \in Calls |-> NoReply]
    /\ response = [c \in Calls |-> NoReply]
    /\ incs = [c \in Calls |-> 0]
    /\ decs = [c \in Calls |-> 0]
    /\ trace = [c \in Calls |-> <<>>]
    /\ verified = [c \in Calls |-> {}]

\* a service with a maximum among ConfiguredMax and the key 2
Init == New(ConfiguredMax, {2})

\* a BatchSign RPC arrives: batch_sign starts and waits for the lock of
\* the counter
BatchSign(c) ==
    /\ pc[c] = "idle"
    /\ pc' = [pc EXCEPT ![c] = "on_incoming_batch_sign"]
    /\ UNCHANGED <<max_ongoing_sign_request, signer_private_key, verified,
                   cnt_lock, ongoing_sign_request_cnt,
                   blob_status_db, slice_db, requests, signatures, reply,
                   response, incs, decs, trace>>

\* self.ongoing_sign_request_cnt.write().await, in on_incoming_batch_sign
\* and in on_complete_batch_sign: the call takes the write lock of the
\* counter once no call holds it
WriteLock(c) ==
    /\ pc[c] \in {"on_incoming_batch_sign", "on_complete_batch_sign"}
    /\ cnt_lock = NoCall
    /\ cnt_lock' = c
    /\ UNCHANGED <<max_ongoing_sign_request, signer_private_key, verified,
                   ongoing_sign_request_cnt,
                   blob_status_db, slice_db, pc, requests, signatures, reply,
                   response, incs, decs, trace>>

\* on_incoming_batch_sign whose Err does not end batch_sign: the rejected
\* call goes on to on_complete_batch_sign like an admitted one
OnIncomingBatchSign_NoReturn(c) ==
    /\ pc[c] = "on_incoming_batch_sign"
    /\ cnt_lock = c
    /\ cnt_lock' = NoCall
    /\ IF ongoing_sign_request_cnt > max_ongoing_sign_request
       THEN /\ reply' = [reply EXCEPT ![c] =
                    ErrReply("ResourceExhausted", "request pool is full")]
            /\ pc' = [pc EXCEPT ![c] = "on_complete_batch_sign"]
            /\ UNCHANGED <<ongoing_sign_request_cnt, incs>>
       ELSE /\ ongoing_sign_request_cnt' = ongoing_sign_request_cnt + 1
            /\ incs' = [incs EXCEPT ![c] = @ + 1]
            /\ pc' = [pc EXCEPT ![c] = "next_request"]
            /\ UNCHANGED reply
    /\ UNCHANGED <<max_ongoing_sign_request, signer_private_key, verified,
                   blob_status_db, slice_db,
                   requests, signatures, response, decs, trace>>

\* on_incoming_batch_sign whose admitted call keeps the write guard of the
\* counter as its permit
OnIncomingBatchSign_KeepsLock(c) ==
    /\ pc[c] = "on_incoming_batch_sign"
    /\ cnt_lock = c
    /\ IF ongoing_sign_request_cnt > max_ongoing_sign_request
       THEN /\ response' = [response EXCEPT ![c] =
                    ErrReply("ResourceExhausted", "request pool is full")]
            /\ pc' = [pc EXCEPT ![c] = "done"]
            /\ cnt_lock' = NoCall
            /\ UNCHANGED <<ongoing_sign_request_cnt, incs>>
       ELSE /\ ongoing_sign_request_cnt' = ongoing_sign_request_cnt + 1
            /\ incs' = [incs EXCEPT ![c] = @ + 1]
            /\ pc' = [pc EXCEPT ![c] = "next_request"]
            /\ UNCHANGED <<response, cnt_lock>>
    /\ UNCHANGED <<max_ongoing_sign_request, signer_private_key, verified,
                   blob_status_db, slice_db,
                   requests, signatures, reply, decs, trace>>

\* on_incoming_batch_sign rejecting at cnt >= max
OnIncomingBatchSign_AtMax(c) ==
    /\ pc[c] = "on_incoming_batch_sign"
    /\ cnt_lock = c
    /\ cnt_lock' = NoCall
    /\ IF ongoing_sign_request_cnt >= max_ongoing_sign_request
       THEN /\ response' = [response EXCEPT ![c] =
                    ErrReply("ResourceExhausted", "request pool is full")]
            /\ pc' = [pc EXCEPT ![c] = "done"]
            /\ UNCHANGED <<ongoing_sign_request_cnt, incs>>
       ELSE /\ ongoing_sign_request_cnt' = ongoing_sign_request_cnt + 1
            /\ incs' = [incs EXCEPT ![c] = @ + 1]
            /\ pc' = [pc EXCEPT ![c] = "next_request"]
            /\ UNCHANGED response
    /\ UNCHANGED <<max_ongoing_sign_request, signer_private_key, verified,
                   blob_status_db, slice_db,
                   requests, signatures, reply, decs, trace>>

\* on_incoming_batch_sign once it holds the write lock of the counter,
\* which it drops as it returns; on Err the `?` of batch_sign returns the
\* status to the caller at once
OnIncomingBatchSign(c) ==
    /\ pc[c] = "on_incoming_batch_sign"
    /\ cnt_lock = c
    /\ cnt_lock' = NoCall
    /\ IF ongoing_sign_request_cnt > max_ongoing_sign_request
       THEN /\ response' = [response EXCEPT ![c] =
                    ErrReply("ResourceExhausted", "request pool is full")]
            /\ pc' = [pc EXCEPT ![c] = "done"]
            /\ UNCHANGED <<ongoing_sign_request_cnt, incs>>
       ELSE /\ ongoing_sign_request_cnt' = ongoing_sign_request_cnt + 1
            /\ incs' = [incs EXCEPT ![c] = @ + 1]
            /\ pc' = [pc EXCEPT ![c] = "next_request"]
            /\ UNCHANGED response
    /\ UNCHANGED <<max_ongoing_sign_request, signer_private_key, verified,
                   blob_status_db, slice_db,
                   requests, signatures, reply, decs, trace>>

\* on_complete_batch_sign once it holds the write lock of the counter (the
\* decrement of the u64 is written as the integer's: a value below 0 is
\* the underflow), then batch_sign returns `reply` to the caller
OnCompleteBatchSign(c) ==
    /\ pc[c] = "on_complete_batch_sign"
    /\ cnt_lock = c
    /\ cnt_lock' = NoCall
    /\ ongoing_sign_request_cnt' = ongoing_sign_request_cnt - 1
    /\ decs' = [decs EXCEPT ![c] = @ + 1]
    /\ response' = [response EXCEPT ![c] = reply[c]]
    /\ pc' = [pc EXCEPT ![c] = "done"]
    /\ UNCHANGED <<max_ongoing_sign_request, signer_private_key, verified,
                   blob_status_db, slice_db,
                   requests, signatures, reply, incs, trace>>

\* the head of `for req in request_content.requests.iter()`: either the
\* batch has a next request, drawn from pool (batches have at most max_len
\* requests), or the iterator is exhausted and batch_sign_inner returns
\* Ok(Response::new(reply))
NextRequest(c, pool, max_len) ==
    /\ pc[c] = "next_request"
    /\ \/ /\ Len(requests[c]) < max_len
          /\ \E req \in pool :
                 requests' = [requests EXCEPT ![c] = Append(@, req)]
          /\ pc' = [pc EXCEPT ![c] = "decode_root"]
          /\ UNCHANGED reply
       \/ /\ reply' = [reply EXCEPT ![c] = OkReply(signatures[c])]
          /\ pc' = [pc EXCEPT ![c] = "on_complete_batch_sign"]
          /\ UNCHANGED requests
    /\ UNCHANGED <<max_ongoing_sign_request, signer_private_key, verified,
                   cnt_lock, ongoing_sign_request_cnt,
                   blob_status_db, slice_db, signatures, response,
                   incs, decs, trace>>

\* let (storage_root, erasure_commitment) = Self::decode_root(req)?
DecodeRoot(c) ==
    /\ pc[c] = "decode_root"
    /\ LET res == DecodeRootResult(Req(c))
       IN  IF res = NoReply
           THEN /\ Log(c, "decode_root", "Ok")
                /\ pc' = [pc EXCEPT ![c] = "check_blob_status"]
                /\ UNCHANGED reply
           ELSE /\ Log(c, "decode_root", res.message)
                /\ ReturnErr(c, res)
    /\ UNCHANGED <<max_ongoing_sign_request, signer_private_key, verified,
                   cnt_lock, ongoing_sign_request_cnt,
                   blob_status_db, slice_db, requests, signatures,
                   response, incs, decs>>

\* check_blob_status letting a verified blob through
CheckBlobStatusResult_VerifiedOk(maybe_blob_status) ==
    IF maybe_blob_status \in {"UPLOADED", "VERIFIED"} THEN NoReply
    ELSE ErrReply("Internal", "blob not found")

\* check_blob_status: the status read from the db, as a Status or NoReply
CheckBlobStatusResult(maybe_blob_status) ==
    IF maybe_blob_status = "UPLOADED" THEN NoReply
    ELSE IF maybe_blob_status = "VERIFIED"
    THEN ErrReply("Internal", "blob verified already")
    ELSE ErrReply("Internal", "blob not found")

\* check_blob_status marking the blob it lets through as verified
CheckBlobStatus_MarksVerified(c) ==
    /\ pc[c] = "check_blob_status"
    /\ \E db_ok \in BOOLEAN :
          LET res == IF db_ok
                     THEN CheckBlobStatusResult(blob_status_db[KeyOf(Req(c))])
                     ELSE ErrReply("Internal", "db error")
          IN  IF res = NoReply
              THEN /\ Log(c, "check_blob_status", "Ok")
                   /\ pc' = [pc EXCEPT ![c] = "decode_encoded_slices"]
                   /\ blob_status_db' =
                          [blob_status_db EXCEPT ![KeyOf(Req(c))] = "VERIFIED"]
                   /\ UNCHANGED reply
              ELSE /\ Log(c, "check_blob_status", res.message)
                   /\ ReturnErr(c, res)
                   /\ UNCHANGED blob_status_db
    /\ UNCHANGED <<max_ongoing_sign_request, signer_private_key, verified,
                   cnt_lock, ongoing_sign_request_cnt, slice_db, requests,
                   signatures, response, incs, decs>>

\* check_blob_status whose failure rolls back the slices the call has put
\* for the earlier requests of the batch
CheckBlobStatus_Rollback(c) ==
    /\ pc[c] = "check_blob_status"
    /\ \E db_ok \in BOOLEAN :
          LET res == IF db_ok
                     THEN CheckBlobStatusResult(blob_status_db[KeyOf(Req(c))])
                     ELSE ErrReply("Internal", "db error")
              earlier == {KeyOf(requests[c][i]) : i \in 1..(Len(requests[c]) - 1)}
          IN  IF res = NoReply
              THEN /\ Log(c, "check_blob_status", "Ok")
                   /\ pc' = [pc EXCEPT ![c] = "decode_encoded_slices"]
                   /\ UNCHANGED <<reply, slice_db>>
              ELSE /\ Log(c, "check_blob_status", res.message)
                   /\ ReturnErr(c, res)
                   /\ slice_db' = [k \in BlobKeys |->
                                      IF k \in earlier THEN None ELSE slice_db[k]]
    /\ UNCHANGED <<max_ongoing_sign_request, signer_private_key, verified,
                   cnt_lock, ongoing_sign_request_cnt,
                   blob_status_db, requests, signatures,
                   response, incs, decs>>

\* self.check_blob_status(req, storage_root).await?; db_ok: the read of
\* the blob status db succeeds
CheckBlobStatus(c) ==
    /\ pc[c] = "check_blob_status"
    /\ \E db_ok \in BOOLEAN :
          LET res == IF db_ok
                     THEN CheckBlobStatusResult(blob_status_db[KeyOf(Req(c))])
                     ELSE ErrReply("Internal", "db error")
          IN  IF res = NoReply
              THEN /\ Log(c, "check_blob_status", "Ok")
                   /\ pc' = [pc EXCEPT ![c] = "decode_encoded_slices"]
                   /\ UNCHANGED reply
              ELSE /\ Log(c, "check_blob_status", res.message)
                   /\ ReturnErr(c, res)
    /\ UNCHANGED <<max_ongoing_sign_request, signer_private_key, verified,
                   cnt_lock, ongoing_sign_request_cnt,
                   blob_status_db, slice_db, requests, signatures,
                   response, incs, decs>>

\* let encoded_slices = Self::decode_encoded_slices(req)?; the slices of
\* the request are drawn from pool as the decoder reads them
DecodeEncodedSlices(c, pool) ==
    /\ pc[c] = "decode_encoded_slices"
    /\ \E slices \in pool :
          LET req == [Req(c) EXCEPT !.encoded_slice = slices]
              res == DecodeEncodedSlicesResult(req)
          IN  /\ requests' = [requests EXCEPT ![c][Len(requests[c])] = req]
              /\ IF res = NoReply
                 THEN /\ Log(c, "decode_encoded_slices", "Ok")
                      /\ pc' = [pc EXCEPT ![c] = "verify_encoded_slices"]
                      /\ UNCHANGED reply
                 ELSE /\ Log(c, "decode_encoded_slices", res.message)
                      /\ ReturnErr(c, res)
    /\ UNCHANGED <<max_ongoing_sign_request, signer_private_key, verified,
                   cnt_lock, ongoing_sign_request_cnt,
                   blob_status_db, slice_db, signatures, response, incs, decs>>

\* the steps of one run of verify_encoded_slices as events: the last step
\* carries the outcome of the run, the steps before it succeeded
RunEvents(c, run) ==
    [i \in 1..Len(run.steps) |->
        Event(c, run.steps[i],
              IF i < Len(run.steps) \/ run.error = "Ok" THEN "Ok"
              ELSE IF run.error = "Internal" THEN run.detail ELSE run.error)]

\* The runs of verify_encoded_slices for the request of call c that take
\* at least k steps: their steps before the k-th succeeded.
RunsReaching(c, k) ==
    {run \in UNION {VerifyEncodedSlicesRuns(Req(c), chain_ok, db_ok) :
                        chain_ok \in BOOLEAN, db_ok \in BOOLEAN} :
        Len(run.steps) >= k}

\* step k of run happens in call c: the run goes on to its next step,
\* whose position is next, or it ends at step k and
\* self.verify_encoded_slices(...).await returns to the match on its error
TakeStep(c, run, k, next) ==
    /\ trace' = [trace EXCEPT ![c] = Append(@, RunEvents(c, run)[k])]
    /\ IF k < Len(run.steps)
       THEN /\ pc' = [pc EXCEPT ![c] = next]
            /\ UNCHANGED <<reply, verified>>
       ELSE /\ verified' = [verified EXCEPT ![c] =
                    @ \cup {<<Len(requests[c]), j>> : j \in run.verified}]
            /\ IF run.error = "Ok"
               THEN /\ pc' = [pc EXCEPT ![c] = "sign"]
                    /\ UNCHANGED reply
               ELSE ReturnErr(c, StatusOfVerificationError(run))

\* verify_encoded_slices up to its second .await:
\* self.chain_state.fetch_quorum_if_missing(epoch).await? and the test of
\* quorum_id against the number of quorums
VerifyEncodedSlices(c) ==
    /\ pc[c] = "verify_encoded_slices"
    /\ \E run \in RunsReaching(c, 1) :
          TakeStep(c, run, 1, "get_assgined_slices")
    /\ UNCHANGED <<max_ongoing_sign_request, signer_private_key, cnt_lock,
                   ongoing_sign_request_cnt,
                   blob_status_db, slice_db, requests, signatures,
                   response, incs, decs>>

\* self.db.read().await.get_assgined_slices(epoch, quorum_id).await? and
\* the None arm of the match on maybe_assigned_slices
GetAssignedSlices(c) ==
    /\ pc[c] = "get_assgined_slices"
    /\ \E run \in RunsReaching(c, 2) :
          TakeStep(c, run, 2, "verify_assigned_slices")
    /\ UNCHANGED <<max_ongoing_sign_request, signer_private_key, cnt_lock,
                   ongoing_sign_request_cnt,
                   blob_status_db, slice_db, requests, signatures,
                   response, incs, decs>>

\* the Some arm: self.verify_assigned_slices(...)?, which runs on the
\* thread of the call and the threads of the parallel iterator with no
\* .await, then the return of verify_encoded_slices
RunVerifyAssignedSlices(c) ==
    /\ pc[c] = "verify_assigned_slices"
    /\ \E run \in RunsReaching(c, 3) :
          TakeStep(c, run, 3, "sign")
    /\ UNCHANGED <<max_ongoing_sign_request, signer_private_key, cnt_lock,
                   ongoing_sign_request_cnt,
                   blob_status_db, slice_db, requests, signatures,
                   response, incs, decs>>

\* the signature pushed and the loop going on without put_slice
Sign_NoPut(c) ==
    /\ pc[c] = "sign"
    /\ signatures' = [signatures EXCEPT ![c] = Append(@, SignatureOf(Req(c)))]
    /\ Log(c, "sign", "Ok")
    /\ pc' = [pc EXCEPT ![c] = "next_request"]
    /\ UNCHANGED <<max_ongoing_sign_request, signer_private_key, verified,
                   cnt_lock,
                   ongoing_sign_request_cnt, blob_status_db, slice_db,
                   requests, reply, response, incs, decs>>

\* the signature put at the front of reply.signatures instead of pushed
Sign_PushFront(c) ==
    /\ pc[c] = "sign"
    /\ signatures' = [signatures EXCEPT ![c] = <<SignatureOf(Req(c))>> \o @]
    /\ Log(c, "sign", "Ok")
    /\ pc' = [pc EXCEPT ![c] = "put_slice"]
    /\ UNCHANGED <<max_ongoing_sign_request, signer_private_key, verified,
                   cnt_lock, ongoing_sign_request_cnt,
                   blob_status_db, slice_db, requests, reply,
                   response, incs, decs>>

\* blob_verified_hash, the multiplication by the key, and
\* reply.signatures.push(value)
Sign(c) ==
    /\ pc[c] = "sign"
    /\ signatures' = [signatures EXCEPT ![c] = Append(@, SignatureOf(Req(c)))]
    /\ Log(c, "sign", "Ok")
    /\ pc' = [pc EXCEPT ![c] = "put_slice"]
    /\ UNCHANGED <<max_ongoing_sign_request, signer_private_key, verified,
                   cnt_lock, ongoing_sign_request_cnt,
                   blob_status_db, slice_db, requests, reply,
                   response, incs, decs>>

\* self.db.write().await.put_slice(...).await.map_err(...)?; db_ok: the
\* write succeeds
PutSlice(c) ==
    /\ pc[c] = "put_slice"
    /\ \E db_ok \in BOOLEAN :
          IF db_ok
          THEN /\ slice_db' = PutSlices(slice_db, KeyOf(Req(c)),
                                        Req(c).encoded_slice)
               /\ Log(c, "put_slice", "Ok")
               /\ pc' = [pc EXCEPT ![c] = "next_request"]
               /\ UNCHANGED reply
          ELSE /\ Log(c, "put_slice", "pub slice error")
               /\ ReturnErr(c, ErrReply("Internal", "pub slice error"))
               /\ UNCHANGED slice_db
    /\ UNCHANGED <<max_ongoing_sign_request, signer_private_key, verified,
                   cnt_lock, ongoing_sign_request_cnt,
                   blob_status_db, requests, signatures, response,
                   incs, decs>>

\* the positions at which a call is suspended on an .await
AwaitPoints ==
    {"on_incoming_batch_sign", "check_blob_status", "verify_encoded_slices",
     "get_assgined_slices", "put_slice", "on_complete_batch_sign"}

\* the caller cancels the call (deadline, disconnect): the runtime drops
\* the future of batch_sign at the .await it is suspended on, and nothing
\* after that .await runs; a call that holds the lock of the counter is
\* running, not suspended
Cancel(c) ==
    /\ pc[c] \in AwaitPoints
    /\ cnt_lock # c
    /\ pc' = [pc EXCEPT ![c] = "cancelled"]
    /\ UNCHANGED <<max_ongoing_sign_request, signer_private_key, verified,
                   cnt_lock, ongoing_sign_request_cnt,
                   blob_status_db, slice_db, requests, signatures,
                   reply, response, incs, decs, trace>>

\* The owner of the blob status db, outside this service, marks an
\* uploaded blob as verified.
FlipStatus(key) ==
    /\ blob_status_db[key] = "UPLOADED"
    /\ blob_status_db' = [blob_status_db EXCEPT ![key] = "VERIFIED"]
    /\ UNCHANGED <<max_ongoing_sign_request, signer_private_key, verified,
                   cnt_lock,
                   ongoing_sign_request_cnt, slice_db, pc, requests,
                   signatures, reply, response, incs, decs, trace>>

\* ------------------------------------------------------- specifications

\* the slices assigned to quorum 0, every one valid
GoodSlices ==
    [i \in 1..3 |-> [wf |-> TRUE, index |-> <<3, 7, 9>>[i], valid |-> TRUE]]
\* a request for an uploaded blob, and one for a verified blob
UploadedRequest ==
    [epoch |-> 1, quorum_id |-> 0, storage_root |-> "r1",
     erasure_commitment |-> "P1", encoded_slice |-> <<>>]
VerifiedRequest == [UploadedRequest EXCEPT !.storage_root = "r2"]

\* a step of call c other than the reading of its input
Step(c) ==
    \/ BatchSign(c)
    \/ WriteLock(c)
    \/ OnIncomingBatchSign(c)
    \/ OnCompleteBatchSign(c)
    \/ DecodeRoot(c)
    \/ CheckBlobStatus(c)
    \/ VerifyEncodedSlices(c)
    \/ GetAssignedSlices(c)
    \/ RunVerifyAssignedSlices(c)
    \/ Sign(c)
    \/ PutSlice(c)
    \/ Cancel(c)

\* concurrent calls, each with a batch of at most one request, for the
\* uploaded blob, with the slices assigned
Next ==
    \E c \in Calls :
        \/ NextRequest(c, {UploadedRequest}, 1)
        \/ DecodeEncodedSlices(c, {GoodSlices})
        \/ Step(c)

Spec == Init /\ [][Next]_vars

\* one call under the default configuration, with any batch of at most
\* MaxBatchLen requests of at most MaxSlices slices
InitPipeline == New({DEFAULT_MAX_ONGOING_SIGN_REQUEST}, PrivateKeys)

NextPipeline ==
    \/ NextRequest(1, SignRequests, MaxBatchLen)
    \/ DecodeEncodedSlices(1, SliceReads)
    \/ Step(1)

SpecPipeline == InitPipeline /\ [][NextPipeline]_vars

\* the requests of every kind for three blobs, r3 with r1 and r2: of two
\* requests that pass every check, the root, the hash and the key differ
BatchRequests ==
    [epoch : Epochs, quorum_id : QuorumIds,
     storage_root : RootWires \cup {"r3"},
     erasure_commitment : CommitmentWires, encoded_slice : {<<>>}]

\* the assigned slices; the same with an invalid slice; out of position;
\* with a slice that does not deserialize; none
BatchSlices ==
    {GoodSlices,
     [GoodSlices EXCEPT ![2].valid = FALSE],
     <<GoodSlices[1], GoodSlices[3], GoodSlices[2]>>,
     <<GoodSlices[1], [wf |-> FALSE, index |-> 0, valid |-> FALSE]>>,
     <<>>}

\* one call under the default configuration, with a batch of at most
\* MaxBatchLen requests of every kind for three blobs, two of them
\* uploaded in quorum 0
NextBatch ==
    \/ NextRequest(1, BatchRequests, MaxBatchLen)
    \/ DecodeEncodedSlices(1, BatchSlices)
    \/ Step(1)

SpecBatch == InitPipeline /\ [][NextBatch]_vars

\* a service configured with max_ongoing_sign_request = 0 and two
\* concurrent calls: call 1 with a batch of at most one request of any
\* kind, call 2 with a batch of at most one request for the uploaded or
\* the verified blob
InitOverload == New({0}, {2})

NextOverload ==
    \/ NextRequest(1, SignRequests, 1)
    \/ DecodeEncodedSlices(1, SliceReads)
    \/ NextRequest(2, {UploadedRequest, VerifiedRequest}, 1)
    \/ DecodeEncodedSlices(2, {GoodSlices})
    \/ \E c \in {1, 2} : Step(c)

SpecOverload == InitOverload /\ [][NextOverload]_vars

\* two concurrent calls, each with a batch of at most one request for the
\* uploaded blob, beside the owner of the blob status db
NextFlip ==
    \/ \E c \in {1, 2} :
           \/ NextRequest(c, {UploadedRequest}, 1)
           \/ DecodeEncodedSlices(c, {GoodSlices})
           \/ Step(c)
    \/ \E key \in BlobKeys : FlipStatus(key)

SpecFlip == Init /\ [][NextFlip]_vars

\* two calls, each with a batch of at most MaxBatchLen requests for the
\* uploaded or the verified blob, with the slices assigned
NextRepeat ==
    \E c \in {1, 2} :
        \/ NextRequest(c, {UploadedRequest, VerifiedRequest}, MaxBatchLen)
        \/ DecodeEncodedSlices(c, {GoodSlices})
        \/ Step(c)

SpecRepeat == Init /\ [][NextRepeat]_vars

\* ----------------------------------------------------- admission control

Ended(c) == pc[c] \in {"done", "cancelled"}
Rejected(c) == response[c].code = "ResourceExhausted"
\* the call is between its increment and the end of batch_sign
InFlight(c) == incs[c] = 1 /\ ~Ended(c)

\* C1: the ongoing-request counter never exceeds the configured
\* max_ongoing_sign_request, and no more than that many calls are admitted
\* and not yet completed at the same time (of max + 1 concurrent calls the
\* excess one is rejected).
C1_CounterWithinMax ==
    /\ ongoing_sign_request_cnt <= max_ongoing_sign_request
    /\ Cardinality({c \in Calls : InFlight(c)}) <= max_ongoing_sign_request

\* C2: every call that was admitted has released its permit, by exactly
\* one decrement of the counter, when it has ended, however it ended
\* (reply, error, or cancellation by the caller).
C2_PermitReleased ==
    \A c \in Calls : Ended(c) /\ incs[c] = 1 => decs[c] = 1

\* C3: the counter never goes below zero; a call decrements only after its
\* own increment, at most once, and a call rejected at admission neither
\* increments nor decrements.
C3_CounterNeverNegative ==
    /\ ongoing_sign_request_cnt >= 0
    /\ \A c \in Calls :
          /\ decs[c] <= incs[c]
          /\ incs[c] <= 1
          /\ Rejected(c) => incs[c] = 0 /\ decs[c] = 0

\* a call was rejected, another was admitted and has completed, and the
\* counter is back at zero
C3_Witness ==
    /\ ongoing_sign_request_cnt = 0
    /\ \E c \in Calls : Rejected(c) /\ Ended(c)
    /\ \E c \in Calls : decs[c] = 1 /\ pc[c] = "done"

\* C4: the service does not stay in the rejecting state: while the counter
\* is above the maximum (a new call would be rejected) some admitted call
\* is still in flight, whose completion gives its permit back.
C4_CapacityRecovered ==
    ongoing_sign_request_cnt > max_ongoing_sign_request
        => \E c \in Calls : InFlight(c)

\* ------------------------------------------------------------ the pipeline

\* the events of request i of call c, and whether it ran step op
EventsOf(c, i) ==
    {trace[c][k] : k \in {j \in 1..Len(trace[c]) : trace[c][j].req = i}}
Ran(c, i, op) ==
    \E k \in 1..Len(trace[c]) : trace[c][k].req = i /\ trace[c][k].op = op
Outcome(c, i, op, out) ==
    \E k \in 1..Len(trace[c]) : trace[c][k] = [req |-> i, op |-> op, out |-> out]
SignedOrPersisted(c, i) == Ran(c, i, "sign") \/ Ran(c, i, "put_slice")

Indices(slices) == [i \in 1..Len(slices) |-> slices[i].index]
RangeOf(seq) == {seq[i] : i \in 1..Len(seq)}

\* every check of the request succeeds, stated on the request and the
\* stores: root of 32 bytes, commitment a point of the subgroup, every
\* slice well-formed, blob uploaded, quorum in bound, assignment recorded
\* and equal, position by position, to the indices supplied, every slice
\* accepted by the verifier
PassesEveryCheck(req) ==
    /\ RootLen(req.storage_root) = 32
    /\ req.erasure_commitment = "P1"
    /\ \A i \in 1..Len(req.encoded_slice) : req.encoded_slice[i].wf
    /\ blob_status_db[KeyOf(req)] = "UPLOADED"
    /\ req.quorum_id < QuorumNum(req.epoch)
    /\ AssignedSlicesOf(req.epoch, req.quorum_id) # None
    /\ AssignedSlicesOf(req.epoch, req.quorum_id)[1] = Indices(req.encoded_slice)
    /\ \A i \in 1..Len(req.encoded_slice) : req.encoded_slice[i].valid

\* C5: a call that has returned has returned either a reply with one
\* signature per request of the batch, the i-th made from the i-th request,
\* every request persisted, or an error and no signature.
C5_AllOrNothing ==
    \A c \in Calls :
        pc[c] = "done" =>
            \/ /\ response[c].kind = "Ok"
               /\ Len(response[c].signatures) = Len(requests[c])
               /\ \A i \in 1..Len(requests[c]) :
                     /\ response[c].signatures[i] = SignatureOf(requests[c][i])
                     /\ slice_db[KeyOf(requests[c][i])] =
                            Some(requests[c][i].encoded_slice)
            \/ /\ response[c].kind = "Err"
               /\ response[c].signatures = <<>>

\* a call has returned a reply of MaxBatchLen signatures for a batch whose
\* first two requests are for different blobs: their signatures differ and
\* their slices are under different keys, so the reply in another order,
\* or the slices of one request only, would be another state
C5_Witness ==
    \E c \in Calls :
        /\ pc[c] = "done"
        /\ response[c].kind = "Ok"
        /\ Len(response[c].signatures) = MaxBatchLen
        /\ Len(requests[c]) = MaxBatchLen
        /\ KeyOf(requests[c][1]) # KeyOf(requests[c][2])
        /\ response[c].signatures[1] # response[c].signatures[2]
        /\ response[c].signatures[1] # SignatureOf(requests[c][2])

\* C6: a request is signed or its slices are put only if it passes every
\* check; the slices in the slice db under a key pass, with that key,
\* every check that reads them.
C6_SignedOnlyIfVerified ==
    /\ \A c \in Calls : \A i \in 1..Len(requests[c]) :
          /\ SignedOrPersisted(c, i) => PassesEveryCheck(requests[c][i])
          /\ i <= Len(signatures[c]) => PassesEveryCheck(requests[c][i])
    /\ \A k \in BlobKeys :
          slice_db[k] # None =>
              PassesEveryCheck(
                  [epoch |-> k[1], quorum_id |-> k[2], storage_root |-> k[3],
                   erasure_commitment |-> "P1",
                   encoded_slice |-> slice_db[k][1]])

\* a request was signed and its slices put, after a request that was too
C6_Witness ==
    \E c \in Calls :
        /\ Len(requests[c]) = 2
        /\ Outcome(c, 2, "put_slice", "Ok")
        /\ slice_db[KeyOf(requests[c][2])] # None

\* request i of call c reached verify_assigned_slices
ReachedAssignment(c, i) == Ran(c, i, "verify_assigned_slices")
AssignedTo(req) == AssignedSlicesOf(req.epoch, req.quorum_id)[1]

\* the supplied indices are the assigned ones in another order, or the two
\* lists differ in length
Mispositioned(assigned, supplied) ==
    \/ Len(assigned) # Len(supplied)
    \/ /\ RangeOf(assigned) = RangeOf(supplied)
       /\ assigned # supplied

MismatchStatus ==
    ErrReply("InvalidArgument",
             "received slices and assigned slices are mismatch")

\* C7 as stated: a request whose slice indices are a permutation of the
\* assigned ones that differs at some position, or differ from them in
\* number, fails with SliceMismatch, and is neither signed nor persisted.
C7_MispositionedIsSliceMismatch ==
    \A c \in Calls : \A i \in 1..Len(requests[c]) :
        (/\ ReachedAssignment(c, i)
         /\ Mispositioned(AssignedTo(requests[c][i]),
                          Indices(requests[c][i].encoded_slice)))
        => /\ Outcome(c, i, "verify_assigned_slices", "SliceMismatch")
           /\ reply[c] = MismatchStatus
           /\ ~SignedOrPersisted(c, i)

\* C7, amended: such a request fails with InvalidArgument and is neither
\* signed nor persisted; the error is SliceMismatch when the lists differ
\* in length or every slice whose index matches its position is accepted
\* by the verifier, and SliceMismatch or IncorrectSlice otherwise.
C7_MispositionedIsRejected ==
    \A c \in Calls : \A i \in 1..Len(requests[c]) :
        LET req == requests[c][i]
            assigned == AssignedTo(req)
            supplied == Indices(req.encoded_slice)
        IN  (ReachedAssignment(c, i) /\ Mispositioned(assigned, supplied))
            => /\ ~SignedOrPersisted(c, i)
               /\ reply[c].code = "InvalidArgument"
               /\ \/ Outcome(c, i, "verify_assigned_slices", "SliceMismatch")
                  \/ Outcome(c, i, "verify_assigned_slices", "IncorrectSlice")
               /\ (\/ Len(assigned) # Len(supplied)
                   \/ \A j \in 1..Len(supplied) :
                         assigned[j] = supplied[j] => req.encoded_slice[j].valid)
                  => /\ Outcome(c, i, "verify_assigned_slices",
                                "SliceMismatch")
                     /\ reply[c] = MismatchStatus

\* the slices assigned as 3, 7, 9 were supplied as 3, 9, 7, every one of
\* them valid, and the request failed with SliceMismatch
C7_Witness ==
    \E c \in Calls :
        /\ Len(requests[c]) = 1
        /\ Indices(requests[c][1].encoded_slice) = <<3, 9, 7>>
        /\ \A j \in 1..3 : requests[c][1].encoded_slice[j].valid
        /\ ReachedAssignment(c, 1)
        /\ AssignedTo(requests[c][1]) = <<3, 7, 9>>
        /\ reply[c] = MismatchStatus

\* the positions of the request at which the closure fails
FailingPositions(assigned, slices) ==
    {j \in 1..Len(slices) : VerifyPosition(assigned[j], slices[j]) # "Ok"}
Lowest(S) == CHOOSE m \in S : \A n \in S : m <= n

\* C8: when slices of a request fail, the error of the request is the
\* error of the lowest failing position.
C8_LowestFailingPositionReported ==
    \A c \in Calls : \A i \in 1..Len(requests[c]) :
        LET req == requests[c][i]
            assigned == AssignedTo(req)
            failing == FailingPositions(assigned, req.encoded_slice)
        IN  (/\ ReachedAssignment(c, i)
             /\ Len(assigned) = Len(req.encoded_slice)
             /\ failing # {})
            => Outcome(c, i, "verify_assigned_slices",
                       VerifyPosition(assigned[Lowest(failing)],
                                      req.encoded_slice[Lowest(failing)]))

\* C9: a request whose quorum_id is not below the number of quorums of its
\* epoch never has the assignment store read, a slice verified, a
\* signature made or slices put, and once the number of quorums is
\* fetched it fails with "quorum_id out of bound".
C9_QuorumOutOfBound ==
    \A c \in Calls : \A i \in 1..Len(requests[c]) :
        requests[c][i].quorum_id >= QuorumNum(requests[c][i].epoch)
        => /\ ~Ran(c, i, "get_assgined_slices")
           /\ ~Ran(c, i, "verify_assigned_slices")
           /\ ~SignedOrPersisted(c, i)
           /\ \A e \in EventsOf(c, i) :
                 (e.op = "fetch_quorum_if_missing"
                      /\ e.out # "fetch quorum failed")
                 => /\ e.out = "quorum_id out of bound"
                    /\ reply[c] = ErrReply("Internal", "quorum_id out of bound")

\* a request for the quorum whose id is the number of quorums, with the
\* slices assigned to that quorum, all valid, failed as out of bound
C9_Witness ==
    \E c \in Calls :
        /\ Len(requests[c]) = 1
        /\ requests[c][1].quorum_id = QuorumNum(requests[c][1].epoch)
        /\ AssignedSlicesOf(requests[c][1].epoch, requests[c][1].quorum_id)
               = Some(Indices(requests[c][1].encoded_slice))
        /\ \A j \in 1..Len(requests[c][1].encoded_slice) :
              requests[c][1].encoded_slice[j].valid
        /\ Outcome(c, 1, "fetch_quorum_if_missing", "quorum_id out of bound")
        /\ reply[c] = ErrReply("Internal", "quorum_id out of bound")

\* C10: a request goes past check_blob_status only if the status stored
\* for its key is UPLOADED; read as VERIFIED it fails with Internal "blob
\* verified already", read as absent with Internal "blob not found", and a
\* request whose blob is not UPLOADED is neither signed nor persisted.
C10_BlobStatusGate ==
    \A c \in Calls : \A i \in 1..Len(requests[c]) :
        LET req == requests[c][i]
            status == blob_status_db[KeyOf(req)]
        IN  RootLen(req.storage_root) = 32
            => /\ status # "UPLOADED" =>
                     /\ ~SignedOrPersisted(c, i)
                     /\ ~Ran(c, i, "decode_encoded_slices")
               /\ \A e \in EventsOf(c, i) :
                     e.op = "check_blob_status" =>
                        /\ e.out = "Ok" => status = "UPLOADED"
                        /\ (e.out # "db error" /\ status = "VERIFIED")
                           => /\ e.out = "blob verified already"
                              /\ reply[c] =
                                  ErrReply("Internal", "blob verified already")
                        /\ (e.out # "db error" /\ status = NoStatus)
                           => /\ e.out = "blob not found"
                              /\ reply[c] =
                                  ErrReply("Internal", "blob not found")

\* after a request that was signed, a request for a verified blob failed
\* at the gate
C10_Witness ==
    \E c \in Calls :
        /\ Len(requests[c]) = 2
        /\ blob_status_db[KeyOf(requests[c][1])] = "UPLOADED"
        /\ Ran(c, 1, "put_slice")
        /\ RootLen(requests[c][2].storage_root) = 32
        /\ blob_status_db[KeyOf(requests[c][2])] = "VERIFIED"
        /\ Outcome(c, 2, "check_blob_status", "blob verified already")
        /\ reply[c] = ErrReply("Internal", "blob verified already")

\* the commitment of the request is not a point of the group: its bytes
\* do not deserialize, or the point is off the curve or off the subgroup
BadCommitment(req) ==
    \/ ~Deserializes(req.erasure_commitment)
    \/ ~IsOnCurve(req.erasure_commitment)
    \/ ~IsInCorrectSubgroup(req.erasure_commitment)

\* C11: a request whose erasure commitment is malformed, off the curve or
\* off the subgroup is rejected by decode_root with InvalidArgument
\* whatever its other fields are, and no other step is run for it: no
\* status read, no quorum lookup, no assignment read, no slice decoded or
\* verified, no signature, no slices put.
C11_BadCommitmentRejectedFirst ==
    \A c \in Calls : \A i \in 1..Len(requests[c]) :
        (BadCommitment(requests[c][i]) /\ Ran(c, i, "decode_root"))
        => /\ reply[c].kind = "Err"
           /\ reply[c].code = "InvalidArgument"
           /\ reply[c].signatures = <<>>
           /\ \A e \in EventsOf(c, i) : e.op = "decode_root" /\ e.out # "Ok"
           /\ requests[c][i].encoded_slice = <<>>
           /\ Len(signatures[c]) < i
           /\ i = Len(requests[c])

\* the call has returned InvalidArgument for a second request that is
\* for an uploaded blob of a quorum in bound with an assignment, and whose
\* commitment is on the curve but off the subgroup
C11_Witness ==
    \E c \in Calls :
        /\ pc[c] = "done"
        /\ Len(requests[c]) = 2
        /\ requests[c][2].erasure_commitment = "off_subgroup"
        /\ requests[c][2].storage_root = "r1"
        /\ requests[c][2].quorum_id = 0
        /\ Outcome(c, 2, "decode_root",
                   "Incorrect commitment: commitment is not in group")
        /\ response[c].code = "InvalidArgument"

\* C12: when the first of two requests passed every check and was
\* persisted and the second failed at check_blob_status, the call returns
\* an error and no signature, and the slices put for the first request
\* are still in the slice db.
C12_NoRollback ==
    \A c \in Calls :
        (/\ pc[c] = "done"
         /\ Len(requests[c]) = 2
         /\ Outcome(c, 1, "put_slice", "Ok")
         /\ \E e \in EventsOf(c, 2) : e.op = "check_blob_status" /\ e.out # "Ok")
        => /\ response[c].kind = "Err"
           /\ response[c].signatures = <<>>
           /\ slice_db[KeyOf(requests[c][1])]
                  = Some(requests[c][1].encoded_slice)

\* the first request was persisted, the second, for a verified blob,
\* failed at the gate, and the call has returned
C12_Witness ==
    \E c \in Calls :
        /\ pc[c] = "done"
        /\ Len(requests[c]) = 2
        /\ Outcome(c, 1, "put_slice", "Ok")
        /\ Outcome(c, 2, "check_blob_status", "blob verified already")
        /\ response[c] = ErrReply("Internal", "blob verified already")
        /\ slice_db[KeyOf(requests[c][1])] # None

\* a storage, chain or persistence call of the call failed
DependencyFailed(c) ==
    \E k \in 1..Len(trace[c]) :
        trace[c][k].out \in {"db error", "fetch quorum failed", "pub slice error"}

\* C13: a call with a batch of one request that passes every check (and
\* whose storage and chain calls succeed) returns exactly one signature,
\* the point blob_verified_hash(root, epoch, quorum_id, commitment) times
\* the signer's private key; with the key 1 it is the hash point itself.
C13_SignatureIsHashTimesKey ==
    \A c \in Calls :
        (/\ pc[c] = "done"
         /\ Len(requests[c]) = 1
         /\ PassesEveryCheck(requests[c][1])
         /\ ~DependencyFailed(c))
        => LET req == requests[c][1]
               hash == BlobVerifiedHash(req.storage_root, req.epoch,
                                        req.quorum_id, req.erasure_commitment)
           IN  /\ response[c].kind = "Ok"
               /\ Len(response[c].signatures) = 1
               /\ response[c].signatures[1]
                      = ScalarMul(hash, signer_private_key)
               /\ signer_private_key = 1 => response[c].signatures[1] = hash

\* a service whose key is not 1 has returned the signature of a batch of
\* one request
C13_Witness ==
    \E c \in Calls :
        /\ pc[c] = "done"
        /\ Len(requests[c]) = 1
        /\ PassesEveryCheck(requests[c][1])
        /\ signer_private_key # 1
        /\ response[c].kind = "Ok"
        /\ Len(response[c].signatures) = 1

\* ------------------------------------------------------------ status codes

\* the step at which batch_sign_inner of call c stopped
LastEvent(c) == trace[c][Len(trace[c])]

\* C14: an error returned by batch_sign has one of three codes, by the
\* step that failed: ResourceExhausted exactly for the rejection at
\* admission; InvalidArgument for the failures to decode the root, the
\* commitment or a slice and for SliceMismatch and IncorrectSlice;
\* Internal for the failures of storage, chain state and persistence and
\* for a blob that is verified already or not found.
C14_StatusCodeByFailingStep ==
    \A c \in Calls :
        (pc[c] = "done" /\ response[c].kind = "Err")
        => /\ response[c].code
                  \in {"ResourceExhausted", "InvalidArgument", "Internal"}
           /\ response[c].code = "ResourceExhausted" <=> incs[c] = 0
           /\ incs[c] = 1 =>
                 LET e == LastEvent(c)
                 IN  /\ e.out # "Ok"
                     /\ e.op \in {"decode_root", "decode_encoded_slices"}
                            => response[c].code = "InvalidArgument"
                     /\ e.out \in {"SliceMismatch", "IncorrectSlice"}
                            => response[c].code = "InvalidArgument"
                     /\ e.out \in {"db error", "fetch quorum failed",
                                   "pub slice error", "blob verified already",
                                   "blob not found"}
                            => response[c].code = "Internal"

\* one call was rejected at admission and the other, admitted, has failed
\* on a slice the verifier refused
C14_Witness ==
    \E c \in Calls, d \in Calls :
        /\ pc[c] = "done" /\ response[c].code = "ResourceExhausted"
        /\ pc[d] = "done" /\ response[d].code = "InvalidArgument"
        /\ LastEvent(d).out = "IncorrectSlice"

\* ------------------------------------------------------- order of the steps

\* the steps of one request in the order of the body of the loop of
\* batch_sign_inner, verify_encoded_slices unfolded into its three steps
CodeOrder ==
    <<"decode_root", "check_blob_status", "decode_encoded_slices",
      "fetch_quorum_if_missing", "get_assgined_slices",
      "verify_assigned_slices", "sign", "put_slice">>

\* the order with every decoding (Decoded) before the status read
\* (StatusOK)
DecodeFirstOrder ==
    <<"decode_root", "decode_encoded_slices", "check_blob_status",
      "fetch_quorum_if_missing", "get_assgined_slices",
      "verify_assigned_slices", "sign", "put_slice">>

IsPrefix(s, t) == Len(s) <= Len(t) /\ \A k \in 1..Len(s) : s[k] = t[k]

\* the events of request i of call c, in the order they happened
EventSeqOf(c, i) == SelectSeq(trace[c], LAMBDA e : e.req = i)

\* every request runs the steps of `order`, in that order and none
\* skipped, each after the one before it succeeded, and a request is
\* started only after the one before it ran every step with success
FollowsOrder(order) ==
    \A c \in Calls :
        /\ \A k \in 1..(Len(trace[c]) - 1) :
              trace[c][k].req <= trace[c][k + 1].req
        /\ \A i \in 1..Len(requests[c]) :
              LET ev == EventSeqOf(c, i)
              IN  /\ IsPrefix([k \in 1..Len(ev) |-> ev[k].op], order)
                  /\ \A k \in 1..(Len(ev) - 1) : ev[k].out = "Ok"
                  /\ i > 1 =>
                        LET before == EventSeqOf(c, i - 1)
                        IN  /\ Len(before) = Len(order)
                            /\ before[Len(before)].out = "Ok"

\* C15 as stated: each request goes through Received, Decoded, StatusOK,
\* QuorumVerified, Signed, Persisted in that order with none skipped: the
\* root, the commitment and every slice are decoded before the blob
\* status is read, the status check precedes the verification, signing
\* follows it, persistence follows signing, and request i+1 is not
\* started before request i is persisted.
C15_DecodedBeforeStatus == FollowsOrder(DecodeFirstOrder)

\* C15, amended: the root and the commitment are decoded before the blob
\* status is read and the slices after it, before the verification; the
\* rest of the order is as stated.
C15_StepsInCodeOrder == FollowsOrder(CodeOrder)

\* after a request that was persisted, a request passed the status check
\* and then failed to decode a slice
C15_Witness ==
    \E c \in Calls :
        /\ Len(requests[c]) = 2
        /\ Outcome(c, 1, "put_slice", "Ok")
        /\ Outcome(c, 2, "check_blob_status", "Ok")
        /\ LastEvent(c) = [req |-> 2, op |-> "decode_encoded_slices",
                           out |-> "failed to deserialize slice"]
        /\ reply[c].code = "InvalidArgument"

\* ------------------------------------------------------- enter and exit

\* call c, holding the lock of the counter at position p, runs the body
\* of p and drops the lock
Runs(c, p) == pc[c] = p /\ cnt_lock = c /\ cnt_lock' # c

\* C16: on_incoming_batch_sign rejects with ResourceExhausted exactly when
\* the counter is above max_ongoing_sign_request, and then leaves the
\* counter as it is and the call ends with no step of the pipeline and no
\* on_complete_batch_sign; otherwise it adds one to the counter.
\* on_complete_batch_sign takes one from the counter whatever the reply
\* is.  Nothing else changes the counter.
C16_EnterExit ==
    [][/\ \A c \in Calls :
            /\ Runs(c, "on_incoming_batch_sign") =>
                  IF ongoing_sign_request_cnt > max_ongoing_sign_request
                  THEN /\ response'[c] = ErrReply("ResourceExhausted",
                                                  "request pool is full")
                       /\ ongoing_sign_request_cnt' = ongoing_sign_request_cnt
                       /\ pc'[c] = "done"
                       /\ trace'[c] = <<>> /\ requests'[c] = <<>>
                       /\ incs'[c] = 0 /\ decs'[c] = 0
                  ELSE /\ ongoing_sign_request_cnt'
                              = ongoing_sign_request_cnt + 1
                       /\ pc'[c] = "next_request"
                       /\ response'[c] = NoReply
            /\ Runs(c, "on_complete_batch_sign") =>
                  /\ ongoing_sign_request_cnt' = ongoing_sign_request_cnt - 1
                  /\ pc'[c] = "done"
            /\ pc[c] = "done" =>
                  /\ pc'[c] = "done"
                  /\ trace'[c] = trace[c] /\ requests'[c] = requests[c]
                  /\ incs'[c] = incs[c] /\ decs'[c] = decs[c]
       /\ ongoing_sign_request_cnt' # ongoing_sign_request_cnt =>
            \E c \in Calls : \/ Runs(c, "on_incoming_batch_sign")
                             \/ Runs(c, "on_complete_batch_sign")
      ]_vars

\* of three calls two were admitted, the third was rejected with the
\* counter above the maximum, then one of the two completed with an error
\* and gave its permit back while the other is still in the pipeline
C16_Witness ==
    \E c \in Calls, d \in Calls, e \in Calls :
        /\ Rejected(c) /\ pc[c] = "done" /\ trace[c] = <<>>
        /\ pc[d] = "done" /\ response[d].kind = "Err"
        /\ incs[d] = 1 /\ decs[d] = 1
        /\ pc[e] = "put_slice"
        /\ ongoing_sign_request_cnt = 1

\* ------------------------------------------------- status at verification

\* call c runs the step it is at, for the request it is at
RunsStep(c, p) == pc[c] = p /\ pc'[c] # p /\ pc'[c] # "cancelled"

\* C17: a request is verified, signed and persisted only while the status
\* of its blob is UPLOADED, whatever the owner of the status db and the
\* other calls do in between: no step of verification, signing or
\* persistence runs for a request whose blob is VERIFIED.
C17_UploadedWhenProcessed ==
    [][\A c \in Calls :
          (\/ RunsStep(c, "verify_encoded_slices")
           \/ RunsStep(c, "get_assgined_slices")
           \/ RunsStep(c, "verify_assigned_slices")
           \/ RunsStep(c, "sign")
           \/ RunsStep(c, "put_slice"))
          => blob_status_db[KeyOf(Req(c))] = "UPLOADED"
      ]_vars

\* ------------------------------------------------------ the admission lock

\* the positions of a call inside batch_sign_inner
PipelineSteps ==
    {"next_request", "decode_root", "check_blob_status",
     "decode_encoded_slices", "verify_encoded_slices", "get_assgined_slices",
     "verify_assigned_slices", "sign", "put_slice"}

\* C18: the lock of the counter is held only by a call that is in
\* on_incoming_batch_sign or on_complete_batch_sign, about to change the
\* counter and drop the lock, and never by a call inside the pipeline, by
\* one that has ended or was cancelled: a call in the pipeline, suspended
\* or not, keeps no other call from entering or leaving.
C18_LockOnlyAroundCounter ==
    \A c \in Calls :
        /\ cnt_lock = c =>
              /\ pc[c] \in {"on_incoming_batch_sign", "on_complete_batch_sign"}
              /\ ENABLED (OnIncomingBatchSign(c) \/ OnCompleteBatchSign(c))
        /\ pc[c] \in PipelineSteps \cup {"idle", "done", "cancelled"}
              => cnt_lock # c

\* two calls are inside the pipeline, suspended on the storage, while a
\* third holds the lock of the counter in on_incoming_batch_sign
C18_Witness ==
    \E c \in Calls, d \in Calls, e \in Calls :
        /\ pc[c] = "check_blob_status"
        /\ pc[d] = "put_slice"
        /\ pc[e] = "on_incoming_batch_sign"
        /\ cnt_lock = e

\* ------------------------------------------------ order of the verifier

\* the positions of request i of call c passed to slice.verify
VerifiedOf(c, i) ==
    {j \in 1..Len(requests[c][i].encoded_slice) : <<i, j>> \in verified[c]}

VerifierOrder ==
    <<"fetch_quorum_if_missing", "get_assgined_slices",
      "verify_assigned_slices">>

\* the steps of verify_encoded_slices run for request i of call c
VerifierOpsOf(c, i) ==
    LET ev == SelectSeq(trace[c],
                        LAMBDA e : e.req = i /\ e.op \in RangeOf(VerifierOrder))
    IN  [k \in 1..Len(ev) |-> ev[k].op]

\* request i of call c stopped in the verifier at step op with the
\* Internal error detail, before any step after op and any slice.verify
StoppedAt(c, i, op, detail) ==
    /\ Outcome(c, i, op, detail)
    /\ LastEvent(c) = [req |-> i, op |-> op, out |-> detail]
    /\ reply[c] = ErrReply("Internal", detail)
    /\ VerifiedOf(c, i) = {}

\* the verifier of request i of call c has taken step op and not yet the
\* step after it, which call c is about to take at position next, or at
\* which it was dropped; no slice.verify was called
PausedAfter(c, i, op, next) ==
    /\ LastEvent(c) = [req |-> i, op |-> op, out |-> "Ok"]
    /\ pc[c] = next \/ (next \in AwaitPoints /\ pc[c] = "cancelled")
    /\ VerifiedOf(c, i) = {}

\* C19: verify_encoded_slices takes its steps in order and fails at the
\* first one that fails: the fetch of the number of quorums (Internal),
\* then quorum_id out of bound, then the read of the assignment and its
\* absence ("quorum not found"), then the lengths (SliceMismatch), and
\* only then the positions, each by the equality of the indices and then
\* slice.verify; slice.verify is called for no slice when an earlier step
\* fails, and for no slice whose index is not the expected one.
C19_VerifierStepOrder ==
    \A c \in Calls : \A i \in 1..Len(requests[c]) :
        LET req == requests[c][i]
            slices == req.encoded_slice
            maybe_assigned == AssignedSlicesOf(req.epoch, req.quorum_id)
            fetched == ~Outcome(c, i, "fetch_quorum_if_missing",
                                "fetch quorum failed")
            in_bound == req.quorum_id < QuorumNum(req.epoch)
            read == ~Outcome(c, i, "get_assgined_slices", "db error")
        IN  IF ~Ran(c, i, "fetch_quorum_if_missing")
            THEN VerifiedOf(c, i) = {}
            ELSE
            /\ IsPrefix(VerifierOpsOf(c, i), VerifierOrder)
            /\ ~fetched =>
                  StoppedAt(c, i, "fetch_quorum_if_missing",
                            "fetch quorum failed")
            /\ (fetched /\ ~in_bound) =>
                  StoppedAt(c, i, "fetch_quorum_if_missing",
                            "quorum_id out of bound")
            /\ (fetched /\ in_bound) =>
                  IF ~Ran(c, i, "get_assgined_slices")
                  THEN PausedAfter(c, i, "fetch_quorum_if_missing",
                                   "get_assgined_slices")
                  ELSE
                  /\ ~read =>
                        StoppedAt(c, i, "get_assgined_slices", "db error")
                  /\ (read /\ maybe_assigned = None) =>
                        StoppedAt(c, i, "get_assgined_slices",
                                  "quorum not found")
                  /\ (read /\ maybe_assigned # None) =>
                        LET assigned == maybe_assigned[1]
                            failing == FailingPositions(assigned, slices)
                        IN  IF ~Ran(c, i, "verify_assigned_slices")
                            THEN PausedAfter(c, i, "get_assgined_slices",
                                             "verify_assigned_slices")
                            ELSE IF Len(assigned) # Len(slices)
                            THEN /\ Outcome(c, i, "verify_assigned_slices",
                                            "SliceMismatch")
                                 /\ reply[c] = MismatchStatus
                                 /\ VerifiedOf(c, i) = {}
                            ELSE /\ \A j \in VerifiedOf(c, i) :
                                        assigned[j] = slices[j].index
                                 /\ failing = {} <=>
                                        Outcome(c, i,
                                                "verify_assigned_slices",
                                                "Ok")
                                 /\ failing # {} =>
                                        /\ reply[c].code = "InvalidArgument"
                                        /\ \E j \in failing :
                                              Outcome(c, i,
                                                  "verify_assigned_slices",
                                                  VerifyPosition(assigned[j],
                                                                 slices[j]))

\* of three slices the first has the expected index and was passed to
\* slice.verify, the second has not and was not, and the request failed
\* with SliceMismatch
C19_Witness ==
    \E c \in Calls :
        /\ Len(requests[c]) = 1
        /\ Len(requests[c][1].encoded_slice) = 3
        /\ Indices(requests[c][1].encoded_slice)[1] = 3
        /\ Indices(requests[c][1].encoded_slice)[2] # 7
        /\ Outcome(c, 1, "verify_assigned_slices", "SliceMismatch")
        /\ VerifiedOf(c, 1) = {1}

\* ------------------------------------------------- the blob status is read

\* request i of call c was signed and its slices were put
SignedAndPersisted(c, i) ==
    /\ Outcome(c, i, "sign", "Ok")
    /\ Outcome(c, i, "put_slice", "Ok")
    /\ i <= Len(signatures[c])

\* C20: no step of batch_sign writes the blob status: whatever calls were
\* made, every key has the status it had.  So a valid request is signed
\* and its slices are put each time it is sent, twice in one batch or in
\* two calls, and each time with the same signature.
C20_StatusOnlyRead ==
    /\ blob_status_db = [k \in BlobKeys |-> InitialBlobStatus(k)]
    /\ \A c \in Calls :
          (/\ pc[c] = "done" /\ incs[c] = 1
           /\ ~DependencyFailed(c)
           /\ \A i \in 1..Len(requests[c]) :
                 PassesEveryCheck(requests[c][i]))
          => /\ response[c].kind = "Ok"
             /\ Len(response[c].signatures) = Len(requests[c])
             /\ \A i \in 1..Len(requests[c]) : SignedAndPersisted(c, i)
    /\ \A c \in Calls, d \in Calls :
          \A i \in 1..Len(signatures[c]), j \in 1..Len(signatures[d]) :
              requests[c][i] = requests[d][j]
                  => signatures[c][i] = signatures[d][j]

\* a call has returned the two signatures of a batch made of the same
\* valid request twice, and another call, with that request again, has
\* returned its signature
C20_Witness ==
    \E c \in Calls, d \in Calls :
        /\ c # d
        /\ pc[c] = "done" /\ response[c].kind = "Ok"
        /\ Len(requests[c]) = 2
        /\ requests[c][1] = requests[c][2]
        /\ Len(response[c].signatures) = 2
        /\ response[c].signatures[1] = response[c].signatures[2]
        /\ pc[d] = "done" /\ response[d].kind = "Ok"
        /\ Len(requests[d]) >= 1
        /\ requests[d][1] = requests[c][1]
        /\ response[d].signatures[1] = response[c].signatures[1]

=============================================================================
